---- MODULE Spec2Model ----
(***************************************************************************)
(* A model of the NFTCollection contract of src/src/contract.rs.           *)
(*                                                                         *)
(* The state is the contract's storage: the instance tier (the keys        *)
(* CollectionInfo, Frozen, MinterFrozen, MaxTokenId, TokensCount), the      *)
(* persistent tier (one TokenInfo per Token(id) key) and the temporary     *)
(* tier (one entry per Operator(owner, operator) key), together with the   *)
(* ledger clock and the installed code hash.  A key is present in a tier   *)
(* exactly when it is in the DOMAIN of the tier's function, as `has`       *)
(* tests it.                                                               *)
(*                                                                         *)
(* Every entry point is an operator that computes the outcome of one       *)
(* invocation from the current storage: a result ("Ok" or the error the    *)
(* invocation ends with) and the storage it leaves.  An invocation that    *)
(* panics leaves the storage it started from: the host discards the        *)
(* writes of a failed invocation.                                          *)
(*                                                                         *)
(* The retention windows of instance and persistent entries are not part   *)
(* of the state: an archived entry is restored before the contract runs,   *)
(* so no handler observes them.  extend_ttl_collection and                 *)
(* extend_ttl_item change nothing else and have no action here.            *)
(***************************************************************************)
EXTENDS Integers, FiniteSets, Sequences, TLC

VARIABLES instance, persistent, temporary, ledger, wasm

vars == <<instance, persistent, temporary, ledger, wasm>>

(***************************************************************************)
(* Bounds of the model.                                                    *)
(***************************************************************************)
\* token ids range over 0..MaxId
MaxId == 1
\* the ledger sequence number ranges over 0..MaxHeight
MaxHeight == 2
\* a bulk_mint batch holds at most MaxBatch pairs
MaxBatch == 2
\* approve is invoked while fewer than MaxApprovals approvals are held
MaxApprovals == 2

(***************************************************************************)
(* Program constants.                                                      *)
(***************************************************************************)
MAX_NAME_LENGTH == 128
MAX_DESCRIPTION_LENGTH == 512
MAX_LINK_LENGTH == 100
MAX_ROYALTY_SHARE == 5000

(***************************************************************************)
(* Values.                                                                 *)
(***************************************************************************)
Addresses == {"a1", "a2", "a3"}
TokenIds == 0..MaxId
Uris == {"u1", "u2"}
Hashes == {"h0", "h1"}

\* Option<T>: None is the empty set, Some(x) the singleton.
None == {}
Some(x) == {x}
is_some(o) == o # {}
unwrap(o) == CHOOSE x \in o : TRUE

\* u32: a 32-bit unsigned value is held as its two 16-bit halves, hi the
\* upper and lo the lower, so that the additions of the code keep their
\* width.  Token ids and heights, which stay below the half, are plain
\* numbers elsewhere.
Half == 65536
u32(n) == [hi |-> 0, lo |-> n]
U32_MAX == [hi |-> Half - 1, lo |-> Half - 1]

\* a + b in u32: the wrapped sum, and whether the sum did not fit
u32_add(a, b) ==
    LET lo == a.lo + b.lo
        hi == a.hi + b.hi + (lo \div Half)
    IN [overflow |-> hi >= Half, value |-> [hi |-> hi % Half, lo |-> lo % Half]]

\* a > b in u32
u32_gt(a, b) == a.hi > b.hi \/ (a.hi = b.hi /\ a.lo > b.lo)

\* Expiration: Never, AtHeight(h), AtTime(t).
Never == [kind |-> "Never", at |-> 0]
AtHeight(h) == [kind |-> "AtHeight", at |-> h]
AtTime(t) == [kind |-> "AtTime", at |-> t]

\* Expiration::is_expired: compares against the current ledger clock.
is_expired(e) ==
    CASE e.kind = "AtHeight" -> ledger.sequence >= e.at
      [] e.kind = "AtTime" -> ledger.timestamp >= e.at
      [] OTHER -> FALSE

\* Option<Expiration>::unwrap_or_default: the default Expiration is Never.
unwrap_or_default(o) == IF is_some(o) THEN unwrap(o) ELSE Never

(***************************************************************************)
(* Storage tiers: has, get, set, remove.                                   *)
(***************************************************************************)
has(store, key) == key \in DOMAIN store
get(store, key) == store[key]
get_or(store, key, default) == IF key \in DOMAIN store THEN store[key] ELSE default
set(store, key, value) ==
    [k \in DOMAIN store \cup {key} |-> IF k = key THEN value ELSE store[k]]
remove(store, key) == [k \in DOMAIN store \ {key} |-> store[k]]

EmptyStore == [k \in {} |-> 0]

\* Map::new: the empty approvals map.
MapNew == [a \in {} |-> Never]

(***************************************************************************)
(* Outcomes of an invocation.                                              *)
(***************************************************************************)
\* The invocation returned: its writes are kept.
Return(i, p, t, w) ==
    [result |-> "Ok", instance |-> i, persistent |-> p, temporary |-> t, wasm |-> w]

\* panic_with_error!: the invocation fails with err and the storage is the
\* one it started from.
Panic(err) ==
    [result |-> err, instance |-> instance, persistent |-> persistent,
     temporary |-> temporary, wasm |-> wasm]

\* Address::require_auth: auth is the set of identities whose control is
\* proved for this invocation; the invocation fails with "AuthFailed"
\* when the identity is not among them.
require_auth(address, auth) == address \in auth

(***************************************************************************)
(* TokenInfo and its authority checks.                                     *)
(***************************************************************************)
TokenInfo(owner, approvals, token_uri) ==
    [owner |-> owner, approvals |-> approvals, token_uri |-> token_uri]

\* TokenInfo::check_can_send: the sender is the owner or holds a
\* non-expired approval for this item.
check_can_send(token, sender) ==
    \/ token.owner = sender
    \/ /\ sender \in DOMAIN token.approvals
       /\ ~is_expired(token.approvals[sender])

\* TokenInfo::check_can_approve: the same authority as check_can_send.
check_can_approve(token, sender) ==
    \/ token.owner = sender
    \/ /\ sender \in DOMAIN token.approvals
       /\ ~is_expired(token.approvals[sender])

(***************************************************************************)
(* Helpers of the contract.                                                *)
(***************************************************************************)
\* _set_token_info: writes the item (and refreshes its retention window).
_set_token_info(p, token_id, token_info) == set(p, token_id, token_info)

\* _change_tokens_count
_change_tokens_count(i, decrease) ==
    LET tokens_count == get_or(i, "TokensCount", 0)
    IN set(i, "TokensCount", IF decrease THEN tokens_count - 1 ELSE tokens_count + 1)

\* the four bounds _set_collection_info checks before it writes
ValidCollectionInfo(collection_info) ==
    /\ is_some(collection_info.name) => unwrap(collection_info.name) <= MAX_NAME_LENGTH
    /\ is_some(collection_info.description)
          => unwrap(collection_info.description) <= MAX_DESCRIPTION_LENGTH
    /\ is_some(collection_info.external_link)
          => unwrap(collection_info.external_link) <= MAX_LINK_LENGTH
    /\ is_some(collection_info.royalty_info)
          => unwrap(collection_info.royalty_info).share <= MAX_ROYALTY_SHARE

\* _set_collection_info, called with the instance tier i as the caller
\* left it
_set_collection_info(i, collection_info) ==
    IF ~ValidCollectionInfo(collection_info)
    THEN Panic("InvalidCollectionInfo")
    ELSE Return(set(i, "CollectionInfo", collection_info), persistent, temporary, wasm)

(***************************************************************************)
(* Entry points.                                                           *)
(***************************************************************************)
\* initialize as it would be without the check for an existing record
initialize_again(collection_info, freeze_minter, auth) ==
    IF ~require_auth(collection_info.creator, auth) THEN Panic("AuthFailed")
    ELSE _set_collection_info(
            IF freeze_minter THEN set(instance, "MinterFrozen", TRUE) ELSE instance,
            collection_info)

initialize(collection_info, freeze_minter, auth) ==
    IF has(instance, "CollectionInfo") THEN Panic("Initialized")
    ELSE IF ~require_auth(collection_info.creator, auth) THEN Panic("AuthFailed")
    ELSE _set_collection_info(
            IF freeze_minter THEN set(instance, "MinterFrozen", TRUE) ELSE instance,
            collection_info)

\* transfer as it would be without from.require_auth()
transfer_no_require_auth(from, to, token_id, auth) ==
    IF ~has(persistent, token_id) THEN Panic("NotNFT")
    ELSE LET token == get(persistent, token_id)
         IN IF ~check_can_send(token, from) THEN Panic("NotAuthorized")
            ELSE Return(instance,
                        _set_token_info(persistent, token_id,
                                        TokenInfo(to, MapNew, token.token_uri)),
                        temporary, wasm)

\* transfer as it would be without token.check_can_send(...)
transfer_no_check_can_send(from, to, token_id, auth) ==
    IF ~has(persistent, token_id) THEN Panic("NotNFT")
    ELSE IF ~require_auth(from, auth) THEN Panic("AuthFailed")
    ELSE LET token == get(persistent, token_id)
         IN Return(instance,
                   _set_token_info(persistent, token_id,
                                   TokenInfo(to, MapNew, token.token_uri)),
                   temporary, wasm)

\* transfer as it would be without token.approvals = Map::new(&env)
transfer_keeps_approvals(from, to, token_id, auth) ==
    IF ~has(persistent, token_id) THEN Panic("NotNFT")
    ELSE IF ~require_auth(from, auth) THEN Panic("AuthFailed")
    ELSE LET token == get(persistent, token_id)
         IN IF ~check_can_send(token, from) THEN Panic("NotAuthorized")
            ELSE Return(instance,
                        _set_token_info(persistent, token_id,
                                        TokenInfo(to, token.approvals, token.token_uri)),
                        temporary, wasm)

\* transfer as it would be if an operator grant of the item's owner gave
\* the authority to send
transfer_honours_operator(from, to, token_id, auth) ==
    IF ~has(persistent, token_id) THEN Panic("NotNFT")
    ELSE IF ~require_auth(from, auth) THEN Panic("AuthFailed")
    ELSE LET token == get(persistent, token_id)
         IN IF /\ ~check_can_send(token, from)
               /\ ~has(temporary, <<token.owner, from>>)
            THEN Panic("NotAuthorized")
            ELSE Return(instance,
                        _set_token_info(persistent, token_id,
                                        TokenInfo(to, MapNew, token.token_uri)),
                        temporary, wasm)

transfer(from, to, token_id, auth) ==
    IF ~has(persistent, token_id) THEN Panic("NotNFT")
    ELSE IF ~require_auth(from, auth) THEN Panic("AuthFailed")
    ELSE LET token == get(persistent, token_id)
         IN IF ~check_can_send(token, from) THEN Panic("NotAuthorized")
            ELSE Return(instance,
                        _set_token_info(persistent, token_id,
                                        TokenInfo(to, MapNew, token.token_uri)),
                        temporary, wasm)

\* mint as it would be without the AlreadyMinted check
mint_overwrites(owner, token_id, token_uri, auth) ==
    IF ~has(instance, "CollectionInfo") THEN Panic("NotInitialized")
    ELSE IF ~require_auth(get(instance, "CollectionInfo").minter, auth)
    THEN Panic("AuthFailed")
    ELSE LET i1 == _change_tokens_count(instance, FALSE)
             max_token_id == get_or(i1, "MaxTokenId", 0)
         IN Return(IF max_token_id < token_id
                   THEN set(i1, "MaxTokenId", token_id) ELSE i1,
                   _set_token_info(persistent, token_id,
                                   TokenInfo(owner, MapNew, token_uri)),
                   temporary, wasm)

\* mint as it would be if it asked for the admin's proof, not the minter's
mint_asks_admin(owner, token_id, token_uri, auth) ==
    IF ~has(instance, "CollectionInfo") THEN Panic("NotInitialized")
    ELSE IF ~require_auth(get(instance, "CollectionInfo").admin, auth)
    THEN Panic("AuthFailed")
    ELSE IF has(persistent, token_id) THEN Panic("AlreadyMinted")
    ELSE LET i1 == _change_tokens_count(instance, FALSE)
             max_token_id == get_or(i1, "MaxTokenId", 0)
         IN Return(IF max_token_id < token_id
                   THEN set(i1, "MaxTokenId", token_id) ELSE i1,
                   _set_token_info(persistent, token_id,
                                   TokenInfo(owner, MapNew, token_uri)),
                   temporary, wasm)

\* mint as it would be if it set MaxTokenId to the id minted, whatever
\* the maximum was
mint_sets_max(owner, token_id, token_uri, auth) ==
    IF ~has(instance, "CollectionInfo") THEN Panic("NotInitialized")
    ELSE IF ~require_auth(get(instance, "CollectionInfo").minter, auth)
    THEN Panic("AuthFailed")
    ELSE IF has(persistent, token_id) THEN Panic("AlreadyMinted")
    ELSE Return(set(_change_tokens_count(instance, FALSE), "MaxTokenId", token_id),
                _set_token_info(persistent, token_id,
                                TokenInfo(owner, MapNew, token_uri)),
                temporary, wasm)

mint(owner, token_id, token_uri, auth) ==
    IF ~has(instance, "CollectionInfo") THEN Panic("NotInitialized")
    ELSE IF ~require_auth(get(instance, "CollectionInfo").minter, auth)
    THEN Panic("AuthFailed")
    ELSE IF has(persistent, token_id) THEN Panic("AlreadyMinted")
    ELSE LET i1 == _change_tokens_count(instance, FALSE)
             max_token_id == get_or(i1, "MaxTokenId", 0)
         IN Return(IF max_token_id < token_id
                   THEN set(i1, "MaxTokenId", token_id) ELSE i1,
                   _set_token_info(persistent, token_id,
                                   TokenInfo(owner, MapNew, token_uri)),
                   temporary, wasm)

\* the loop of bulk_mint over the remaining (token_id, token_uri) pairs:
\* p, tokens_count and max_token_id are the writes and locals so far; ok
\* is FALSE when the loop panicked with AlreadyMinted
RECURSIVE bulk_mint_loop(_, _, _, _, _)
bulk_mint_loop(tokens, owner, p, tokens_count, max_token_id) ==
    IF tokens = <<>>
    THEN [ok |-> TRUE, persistent |-> p, tokens_count |-> tokens_count,
          max_token_id |-> max_token_id]
    ELSE LET token_id == Head(tokens)[1]
             token_uri == Head(tokens)[2]
         IN IF has(p, token_id)
            THEN [ok |-> FALSE, persistent |-> p, tokens_count |-> tokens_count,
                  max_token_id |-> max_token_id]
            ELSE bulk_mint_loop(Tail(tokens), owner,
                                _set_token_info(p, token_id,
                                                TokenInfo(owner, MapNew, token_uri)),
                                tokens_count + 1,
                                IF max_token_id < token_id THEN token_id
                                ELSE max_token_id)

\* bulk_mint as it would be if it returned at the first id already minted
\* instead of panicking: the items and counters written so far are kept
bulk_mint_returns_early(owner, tokens, auth) ==
    IF ~has(instance, "CollectionInfo") THEN Panic("NotInitialized")
    ELSE IF ~require_auth(get(instance, "CollectionInfo").minter, auth)
    THEN Panic("AuthFailed")
    ELSE LET loop == bulk_mint_loop(tokens, owner, persistent,
                                    get_or(instance, "TokensCount", 0),
                                    get_or(instance, "MaxTokenId", 0))
         IN Return(set(set(instance, "MaxTokenId", loop.max_token_id),
                       "TokensCount", loop.tokens_count),
                   loop.persistent, temporary, wasm)

\* bulk_mint as it would be if its count started from zero, not from the
\* stored TokensCount
bulk_mint_counts_batch(owner, tokens, auth) ==
    IF ~has(instance, "CollectionInfo") THEN Panic("NotInitialized")
    ELSE IF ~require_auth(get(instance, "CollectionInfo").minter, auth)
    THEN Panic("AuthFailed")
    ELSE LET loop == bulk_mint_loop(tokens, owner, persistent, 0,
                                    get_or(instance, "MaxTokenId", 0))
         IN IF ~loop.ok THEN Panic("AlreadyMinted")
            ELSE Return(set(set(instance, "MaxTokenId", loop.max_token_id),
                            "TokensCount", loop.tokens_count),
                        loop.persistent, temporary, wasm)

bulk_mint(owner, tokens, auth) ==
    IF ~has(instance, "CollectionInfo") THEN Panic("NotInitialized")
    ELSE IF ~require_auth(get(instance, "CollectionInfo").minter, auth)
    THEN Panic("AuthFailed")
    ELSE LET loop == bulk_mint_loop(tokens, owner, persistent,
                                    get_or(instance, "TokensCount", 0),
                                    get_or(instance, "MaxTokenId", 0))
         IN IF ~loop.ok THEN Panic("AlreadyMinted")
            ELSE Return(set(set(instance, "MaxTokenId", loop.max_token_id),
                            "TokensCount", loop.tokens_count),
                        loop.persistent, temporary, wasm)

\* burn as it would be without _change_tokens_count(&env, true)
burn_keeps_count(owner, token_id, auth) ==
    IF ~has(persistent, token_id) THEN Panic("NotNFT")
    ELSE IF ~require_auth(owner, auth) THEN Panic("AuthFailed")
    ELSE IF ~check_can_approve(get(persistent, token_id), owner)
    THEN Panic("NotAuthorized")
    ELSE Return(instance, remove(persistent, token_id), temporary, wasm)

\* burn as it would be if it refused a frozen collection
burn_refuses_frozen(owner, token_id, auth) ==
    IF has(instance, "Frozen") THEN Panic("Frozen")
    ELSE IF ~has(persistent, token_id) THEN Panic("NotNFT")
    ELSE IF ~require_auth(owner, auth) THEN Panic("AuthFailed")
    ELSE IF ~check_can_approve(get(persistent, token_id), owner)
    THEN Panic("NotAuthorized")
    ELSE Return(_change_tokens_count(instance, TRUE), remove(persistent, token_id),
                temporary, wasm)

burn(owner, token_id, auth) ==
    IF ~has(persistent, token_id) THEN Panic("NotNFT")
    ELSE IF ~require_auth(owner, auth) THEN Panic("AuthFailed")
    ELSE IF ~check_can_approve(get(persistent, token_id), owner)
    THEN Panic("NotAuthorized")
    ELSE Return(_change_tokens_count(instance, TRUE), remove(persistent, token_id),
                temporary, wasm)

\* _update_approvals as it would be without the is_expired test
_update_approvals_no_expiry(token, spender, add, expires) ==
    LET approvals == remove(token.approvals, spender)
    IN IF add
       THEN [ok |-> TRUE,
             approvals |-> set(approvals, spender, unwrap_or_default(expires))]
       ELSE [ok |-> TRUE, approvals |-> approvals]

\* _update_approvals: ok is FALSE when it panicked with NotAuthorized
_update_approvals(token, spender, add, expires) ==
    LET approvals == remove(token.approvals, spender)
    IN IF add
       THEN IF is_expired(unwrap_or_default(expires))
            THEN [ok |-> FALSE, approvals |-> approvals]
            ELSE [ok |-> TRUE,
                  approvals |-> set(approvals, spender, unwrap_or_default(expires))]
       ELSE [ok |-> TRUE, approvals |-> approvals]

\* approve as it would be if only the item's owner could approve
approve_owner_only(owner, spender, token_id, expires, auth) ==
    IF ~has(persistent, token_id) THEN Panic("NotNFT")
    ELSE IF ~require_auth(owner, auth) THEN Panic("AuthFailed")
    ELSE LET token == get(persistent, token_id)
             upd == _update_approvals(token, spender, TRUE, expires)
         IN IF token.owner # owner THEN Panic("NotAuthorized")
            ELSE IF ~upd.ok THEN Panic("NotAuthorized")
            ELSE Return(instance,
                        _set_token_info(persistent, token_id,
                                        TokenInfo(token.owner, upd.approvals,
                                                  token.token_uri)),
                        temporary, wasm)

approve(owner, spender, token_id, expires, auth) ==
    IF ~has(persistent, token_id) THEN Panic("NotNFT")
    ELSE IF ~require_auth(owner, auth) THEN Panic("AuthFailed")
    ELSE LET token == get(persistent, token_id)
             upd == _update_approvals(token, spender, TRUE, expires)
         IN IF ~check_can_approve(token, owner) THEN Panic("NotAuthorized")
            ELSE IF ~upd.ok THEN Panic("NotAuthorized")
            ELSE Return(instance,
                        _set_token_info(persistent, token_id,
                                        TokenInfo(token.owner, upd.approvals,
                                                  token.token_uri)),
                        temporary, wasm)

revoke(owner, spender, token_id, auth) ==
    IF ~has(persistent, token_id) THEN Panic("NotNFT")
    ELSE IF ~require_auth(owner, auth) THEN Panic("AuthFailed")
    ELSE LET token == get(persistent, token_id)
             upd == _update_approvals(token, spender, FALSE, None)
         IN IF ~check_can_approve(token, owner) THEN Panic("NotAuthorized")
            ELSE Return(instance,
                        _set_token_info(persistent, token_id,
                                        TokenInfo(token.owner, upd.approvals,
                                                  token.token_uri)),
                        temporary, wasm)

\* approve_all as it would be with saturating_sub in place of
\* checked_sub(...).unwrap()
approve_all_saturating(owner, operator, expiration_ledger, auth) ==
    IF ~require_auth(owner, auth) THEN Panic("AuthFailed")
    ELSE Return(instance, persistent,
                set(temporary, <<owner, operator>>,
                    [expiration_ledger |-> expiration_ledger,
                     extend_to |-> IF expiration_ledger < ledger.sequence THEN 0
                                   ELSE expiration_ledger - ledger.sequence]),
                wasm)

\* approve_all: checked_sub(...).unwrap() panics when expiration_ledger is
\* below the current sequence number; the entry holds the value written and
\* the window asked of extend_ttl.
approve_all(owner, operator, expiration_ledger, auth) ==
    IF ~require_auth(owner, auth) THEN Panic("AuthFailed")
    ELSE IF expiration_ledger < ledger.sequence THEN Panic("Unwrap")
    ELSE Return(instance, persistent,
                set(temporary, <<owner, operator>>,
                    [expiration_ledger |-> expiration_ledger,
                     extend_to |-> expiration_ledger - ledger.sequence]),
                wasm)

revoke_all(owner, operator, auth) ==
    IF ~require_auth(owner, auth) THEN Panic("AuthFailed")
    ELSE Return(instance, persistent, remove(temporary, <<owner, operator>>), wasm)

freeze_collection(auth) ==
    IF ~has(instance, "CollectionInfo") THEN Panic("NotInitialized")
    ELSE IF ~require_auth(get(instance, "CollectionInfo").admin, auth)
    THEN Panic("AuthFailed")
    ELSE Return(set(instance, "Frozen", TRUE), persistent, temporary, wasm)

update_token_url(token_id, token_uri, auth) ==
    IF has(instance, "Frozen") THEN Panic("Frozen")
    ELSE IF ~has(instance, "CollectionInfo") THEN Panic("NotInitialized")
    ELSE IF ~require_auth(get(instance, "CollectionInfo").admin, auth)
    THEN Panic("AuthFailed")
    ELSE IF ~has(persistent, token_id) THEN Panic("NotNFT")
    ELSE LET token == get(persistent, token_id)
         IN Return(instance,
                   _set_token_info(persistent, token_id,
                                   TokenInfo(token.owner, token.approvals, token_uri)),
                   temporary, wasm)

\* update_collection_info as it would be without the Frozen check
update_collection_info_no_frozen_check(new_collection_info, auth) ==
    IF ~has(instance, "CollectionInfo") THEN Panic("NotInitialized")
    ELSE LET collection_info == get(instance, "CollectionInfo")
         IN IF ~require_auth(collection_info.admin, auth) THEN Panic("AuthFailed")
            ELSE IF /\ collection_info.minter # new_collection_info.minter
                    /\ has(instance, "MinterFrozen")
            THEN Panic("MinterFrozen")
            ELSE IF collection_info.creator # new_collection_info.creator
            THEN Panic("InvalidCollectionInfo")
            ELSE _set_collection_info(instance, new_collection_info)

\* update_collection_info as it would be with the creator compared before
\* the minter
update_collection_info_creator_first(new_collection_info, auth) ==
    IF has(instance, "Frozen") THEN Panic("Frozen")
    ELSE IF ~has(instance, "CollectionInfo") THEN Panic("NotInitialized")
    ELSE LET collection_info == get(instance, "CollectionInfo")
         IN IF ~require_auth(collection_info.admin, auth) THEN Panic("AuthFailed")
            ELSE IF collection_info.creator # new_collection_info.creator
            THEN Panic("InvalidCollectionInfo")
            ELSE IF /\ collection_info.minter # new_collection_info.minter
                    /\ has(instance, "MinterFrozen")
            THEN Panic("MinterFrozen")
            ELSE _set_collection_info(instance, new_collection_info)

\* update_collection_info as it would be without the comparison of the
\* creators
update_collection_info_no_creator_check(new_collection_info, auth) ==
    IF has(instance, "Frozen") THEN Panic("Frozen")
    ELSE IF ~has(instance, "CollectionInfo") THEN Panic("NotInitialized")
    ELSE LET collection_info == get(instance, "CollectionInfo")
         IN IF ~require_auth(collection_info.admin, auth) THEN Panic("AuthFailed")
            ELSE IF /\ collection_info.minter # new_collection_info.minter
                    /\ has(instance, "MinterFrozen")
            THEN Panic("MinterFrozen")
            ELSE _set_collection_info(instance, new_collection_info)

\* update_collection_info as it would be without the MinterFrozen check
update_collection_info_no_minter_check(new_collection_info, auth) ==
    IF has(instance, "Frozen") THEN Panic("Frozen")
    ELSE IF ~has(instance, "CollectionInfo") THEN Panic("NotInitialized")
    ELSE LET collection_info == get(instance, "CollectionInfo")
         IN IF ~require_auth(collection_info.admin, auth) THEN Panic("AuthFailed")
            ELSE IF collection_info.creator # new_collection_info.creator
            THEN Panic("InvalidCollectionInfo")
            ELSE _set_collection_info(instance, new_collection_info)

update_collection_info(new_collection_info, auth) ==
    IF has(instance, "Frozen") THEN Panic("Frozen")
    ELSE IF ~has(instance, "CollectionInfo") THEN Panic("NotInitialized")
    ELSE LET collection_info == get(instance, "CollectionInfo")
         IN IF ~require_auth(collection_info.admin, auth) THEN Panic("AuthFailed")
            ELSE IF /\ collection_info.minter # new_collection_info.minter
                    /\ has(instance, "MinterFrozen")
            THEN Panic("MinterFrozen")
            ELSE IF collection_info.creator # new_collection_info.creator
            THEN Panic("InvalidCollectionInfo")
            ELSE _set_collection_info(instance, new_collection_info)

\* upgrade: the deployer installs the code with the given hash.
upgrade(hash, auth) ==
    IF has(instance, "Frozen") THEN Panic("Frozen")
    ELSE IF ~has(instance, "CollectionInfo") THEN Panic("NotInitialized")
    ELSE IF ~require_auth(get(instance, "CollectionInfo").admin, auth)
    THEN Panic("AuthFailed")
    ELSE Return(instance, persistent, temporary, hash)

(***************************************************************************)
(* Getters, read from the instance tier i and the persistent tier p: the   *)
(* result and, when it is "Ok", the value returned.                        *)
(***************************************************************************)
is_collection_frozen(i) == has(i, "Frozen")

get_collection_info(i) ==
    IF has(i, "CollectionInfo")
    THEN [result |-> "Ok", value |-> Some(get(i, "CollectionInfo"))]
    ELSE [result |-> "NotInitialized", value |-> None]

get_token_info(p, token_id) ==
    IF has(p, token_id)
    THEN [result |-> "Ok", value |-> Some(get(p, token_id))]
    ELSE [result |-> "NotNFT", value |-> None]

get_max_token_id(i) == get_or(i, "MaxTokenId", 0)

get_tokens_count(i) == get_or(i, "TokensCount", 0)

\* the loop of get_tokens over n..=end: the items that exist, and whose
\* owner is the filter's when there is one, in the order they are pushed
RECURSIVE get_tokens_loop(_, _, _, _)
get_tokens_loop(p, owner, n, end) ==
    IF n > end THEN <<>>
    ELSE IF has(p, n) /\ (is_some(owner) => get(p, n).owner = unwrap(owner))
    THEN <<get(p, n)>> \o get_tokens_loop(p, owner, n + 1, end)
    ELSE get_tokens_loop(p, owner, n + 1, end)

\* get_tokens: start_after and limit are u32 values.  start_after + limit
\* is a u32 addition: when the sum does not fit, a build with overflow
\* checks panics and a build without them keeps the wrapped sum.  The ids
\* stored, and so max_token_id and the clamped end, are below the half.
get_tokens(i, p, owner, start_after, limit, overflow_checks) ==
    LET max_token_id == get_or(i, "MaxTokenId", 0)
        sum == u32_add(start_after, limit)
        end == IF u32_gt(sum.value, u32(max_token_id)) THEN max_token_id
               ELSE sum.value.lo
    IN IF sum.overflow /\ overflow_checks
       THEN [result |-> "Overflow", value |-> <<>>]
       ELSE [result |-> "Ok",
             value |-> IF start_after.hi > 0 THEN <<>>
                       ELSE get_tokens_loop(p, owner, start_after.lo, end)]

(***************************************************************************)
(* The state machine.                                                      *)
(***************************************************************************)
Init ==
    /\ instance = EmptyStore
    /\ persistent = EmptyStore
    /\ temporary = EmptyStore
    /\ ledger = [sequence |-> 0, timestamp |-> 0]
    /\ wasm = "h0"

\* One invocation with outcome r.  A failed invocation leaves the storage
\* as it was; the event a successful one publishes is not part of the state.
Invoke(r) ==
    /\ instance' = r.instance
    /\ persistent' = r.persistent
    /\ temporary' = r.temporary
    /\ wasm' = r.wasm
    /\ UNCHANGED ledger

CollectionInfo(creator, admin, minter, name, description, external_link, royalty_info) ==
    [creator |-> creator, admin |-> admin, minter |-> minter, name |-> name,
     description |-> description, external_link |-> external_link,
     royalty_info |-> royalty_info]

\* the sets of identities that may have authorised an invocation
Auths == {{}} \cup {{a} : a \in Addresses}

\* an invocation that names its caller comes with the caller's proof or
\* with none: the entry points ask for no other identity's
AuthsOf(caller) == {{}, {caller}}

\* the batches of bulk_mint: up to MaxBatch (token_id, token_uri) pairs
Batches(ids, uris) ==
    UNION {[1..n -> ids \X uris] : n \in 0..MaxBatch}

\* the Expiration arguments of approve
Expirations ==
    {None} \cup {Some(AtHeight(h)) : h \in 1..MaxHeight}
           \cup {Some(AtTime(5 * MaxHeight))}

Initialize(infos, flags) ==
    \E ci \in infos, fm \in flags, auth \in Auths :
        Invoke(initialize(ci, fm, auth))

Transfer(froms, tos, ids) ==
    \E from \in froms, to \in tos, id \in ids :
    \E auth \in AuthsOf(from) :
        Invoke(transfer(from, to, id, auth))

Mint(owners, ids, uris) ==
    \E owner \in owners, id \in ids, uri \in uris, auth \in Auths :
        Invoke(mint(owner, id, uri, auth))

BulkMint(owners, ids, uris) ==
    \E owner \in owners, tokens \in Batches(ids, uris), auth \in Auths :
        Invoke(bulk_mint(owner, tokens, auth))

Burn(owners, ids) ==
    \E owner \in owners, id \in ids :
    \E auth \in AuthsOf(owner) :
        Invoke(burn(owner, id, auth))

\* the number of approvals held on all items
ApprovalsCount ==
    LET RECURSIVE Sum(_)
        Sum(ids) == IF ids = {} THEN 0
                    ELSE LET id == CHOOSE x \in ids : TRUE
                         IN Cardinality(DOMAIN persistent[id].approvals)
                                + Sum(ids \ {id})
    IN Sum(DOMAIN persistent)

Approve(owners, spenders, ids, exps) ==
    \E owner \in owners, spender \in spenders, id \in ids, expires \in exps :
    \E auth \in AuthsOf(owner) :
        /\ ApprovalsCount < MaxApprovals
        /\ Invoke(approve(owner, spender, id, expires, auth))

Revoke(owners, spenders, ids) ==
    \E owner \in owners, spender \in spenders, id \in ids :
    \E auth \in AuthsOf(owner) :
        Invoke(revoke(owner, spender, id, auth))

ApproveAll(owners, operators, heights) ==
    \E owner \in owners, operator \in operators, expiration_ledger \in heights :
    \E auth \in AuthsOf(owner) :
        Invoke(approve_all(owner, operator, expiration_ledger, auth))

RevokeAll(owners, operators) ==
    \E owner \in owners, operator \in operators :
    \E auth \in AuthsOf(owner) :
        Invoke(revoke_all(owner, operator, auth))

FreezeCollection ==
    \E auth \in Auths : Invoke(freeze_collection(auth))

UpdateTokenUrl(ids, uris) ==
    \E id \in ids, uri \in uris, auth \in Auths :
        Invoke(update_token_url(id, uri, auth))

UpdateCollectionInfo(infos) ==
    \E ci \in infos, auth \in Auths :
        Invoke(update_collection_info(ci, auth))

Upgrade(hashes) ==
    \E hash \in hashes, auth \in Auths : Invoke(upgrade(hash, auth))

\* The ledger closes: the sequence number advances by one and the close time
\* by the five seconds a ledger takes.
Tick ==
    /\ ledger.sequence < MaxHeight
    /\ ledger' = [sequence |-> ledger.sequence + 1, timestamp |-> ledger.timestamp + 5]
    /\ UNCHANGED <<instance, persistent, temporary, wasm>>

(***************************************************************************)
(* Spec: the items of a collection.  The collection is initialized with    *)
(* one record; items are minted, approved, transferred, updated and        *)
(* burned as the ledger advances.  Item 0 is the one that is approved and  *)
(* updated; the other items are minted, transferred and burned.            *)
(***************************************************************************)
ItemInfos == {CollectionInfo("a1", "a1", "a2", None, None, None, None)}

Next ==
    \/ Initialize(ItemInfos, {FALSE})
    \/ Mint({"a1"}, TokenIds, {"u1"})
    \/ BulkMint({"a1"}, TokenIds, {"u1"})
    \/ Transfer(Addresses, {"a1", "a3"}, TokenIds)
    \/ Burn(Addresses, TokenIds)
    \/ Approve(Addresses, {"a2", "a3"}, {0}, Expirations)
    \/ Revoke(Addresses, {"a2", "a3"}, {0})
    \/ UpdateTokenUrl({0}, {"u2"})
    \/ Tick

Spec == Init /\ [][Next]_vars

(***************************************************************************)
(* SpecCollection: the collection record and its flags.  initialize and    *)
(* update_collection_info are offered records of every creator, admin and  *)
(* minter below, with fields absent, at their limits and one past them;    *)
(* one item is minted, approved, transferred, updated and burned.  The     *)
(* ledger stays at its first sequence number.                              *)
(***************************************************************************)
\* name, description, external_link (their lengths) and royalty_info
Metas ==
    {<<None, None, None, None>>,
     <<Some(MAX_NAME_LENGTH), Some(MAX_DESCRIPTION_LENGTH), Some(MAX_LINK_LENGTH),
       Some([recipient |-> "a1", share |-> MAX_ROYALTY_SHARE])>>,
     <<Some(MAX_NAME_LENGTH + 1), None, None, None>>,
     <<None, Some(MAX_DESCRIPTION_LENGTH + 1), None, None>>,
     <<None, None, Some(MAX_LINK_LENGTH + 1), None>>,
     <<None, None, None, Some([recipient |-> "a1", share |-> MAX_ROYALTY_SHARE + 1])>>}

CollectionInfos ==
    {CollectionInfo(c, a, m, meta[1], meta[2], meta[3], meta[4]) :
        c \in {"a1", "a2"}, a \in {"a1", "a2"}, m \in {"a2", "a3"}, meta \in Metas}

NextCollection ==
    \/ Initialize(CollectionInfos, BOOLEAN)
    \/ UpdateCollectionInfo(CollectionInfos)
    \/ FreezeCollection
    \/ Upgrade({"h1"})
    \/ UpdateTokenUrl({0}, {"u2"})
    \/ Mint({"a1"}, {0}, {"u1"})
    \/ BulkMint({"a1"}, {0}, {"u1"})
    \/ Transfer({"a1", "a2"}, {"a1"}, {0})
    \/ Burn({"a1"}, {0})
    \/ Approve({"a1"}, {"a2"}, {0}, {None})
    \/ Revoke({"a1"}, {"a2"}, {0})

SpecCollection == Init /\ [][NextCollection]_vars

(***************************************************************************)
(* SpecOperators: the operator grants.  The owner of item 0 grants and     *)
(* withdraws operator rights with expiration heights behind, at and ahead  *)
(* of the ledger, while the item is approved, transferred and burned and   *)
(* the ledger advances.  A grant whose retention window has run out is     *)
(* kept in the state: no entry point reads the grants.                     *)
(***************************************************************************)
NextOperators ==
    \/ Initialize(ItemInfos, {FALSE})
    \/ Mint({"a1"}, {0}, {"u1"})
    \/ ApproveAll({"a1"}, {"a2", "a3"}, 0..MaxHeight)
    \/ RevokeAll({"a1"}, {"a2", "a3"})
    \/ Approve({"a1", "a2"}, {"a3"}, {0}, {None})
    \/ Revoke({"a1"}, {"a3"}, {0})
    \/ Transfer({"a1", "a2", "a3"}, {"a1", "a2"}, {0})
    \/ Burn({"a1", "a2"}, {0})
    \/ Tick

SpecOperators == Init /\ [][NextOperators]_vars

(***************************************************************************)
(* The claims.  Each is stated of the outcome the entry point computes in  *)
(* a reachable state, for every argument and every set of proved           *)
(* identities.                                                             *)
(***************************************************************************)
AllAuths == SUBSET Addresses

\* an Expiration that has not run out on the current ledger, in the words
\* of the specification: never, or a height or time still ahead
NonExpired(e) ==
    \/ e.kind = "Never"
    \/ e.kind = "AtHeight" /\ ledger.sequence < e.at
    \/ e.kind = "AtTime" /\ ledger.timestamp < e.at

\* sender owns the item or holds a non-expired approval for it
MaySend(token, sender) ==
    \/ token.owner = sender
    \/ sender \in DOMAIN token.approvals /\ NonExpired(token.approvals[sender])

\* the outcome r left the whole storage as it was
Untouched(r) ==
    /\ r.instance = instance
    /\ r.persistent = persistent
    /\ r.temporary = temporary
    /\ r.wasm = wasm

\* C1: a transfer of an existing item succeeds only if `from` has proved
\* control of its identity and is the item's owner or holds a non-expired
\* approval for that item; in every other case it fails and the item (with
\* the rest of the storage) is unchanged.
C1_TransferNeedsAuthority ==
    \A id \in DOMAIN persistent, from \in Addresses, to \in Addresses,
       auth \in AllAuths :
        LET r == transfer(from, to, id, auth)
            allowed == from \in auth /\ MaySend(persistent[id], from)
        IN /\ r.result = "Ok" => allowed
           /\ ~allowed => r.result # "Ok" /\ Untouched(r)

\* C1 happens: an item is held on which a spender's approval has run out;
\* the spender's transfer of it is refused, as is a transfer in the owner's
\* name with the spender's proof alone.
C1_Witness ==
    \E id \in DOMAIN persistent, s \in Addresses :
        /\ s # persistent[id].owner
        /\ s \in DOMAIN persistent[id].approvals
        /\ ~NonExpired(persistent[id].approvals[s])
        /\ transfer(s, s, id, {s}).result = "NotAuthorized"
        /\ transfer(persistent[id].owner, s, id, {s}).result = "AuthFailed"

\* C2: a successful transfer leaves item id with owner `to`, no approvals
\* and the token_uri it had; every other item, tokens_count, max_token_id
\* and the collection record are unchanged.
C2_TransferEffect ==
    \A id \in DOMAIN persistent, from \in Addresses, to \in Addresses,
       auth \in AllAuths :
        LET r == transfer(from, to, id, auth)
        IN r.result = "Ok" =>
            /\ DOMAIN r.persistent = DOMAIN persistent
            /\ r.persistent[id].owner = to
            /\ DOMAIN r.persistent[id].approvals = {}
            /\ get_token_info(r.persistent, id).value
                   = {TokenInfo(to, MapNew, persistent[id].token_uri)}
            /\ \A other \in DOMAIN persistent \ {id} :
                   r.persistent[other] = persistent[other]
            /\ get_tokens_count(r.instance) = get_tokens_count(instance)
            /\ get_max_token_id(r.instance) = get_max_token_id(instance)
            /\ r.instance = instance

\* C2 happens: an item has been transferred to a3 (items are minted to
\* a1), and an item with two approvals is transferred by one of its
\* approved spenders.
C2_Witness ==
    /\ Cardinality(DOMAIN persistent) >= 2
    /\ \E id \in DOMAIN persistent : persistent[id].owner = "a3"
    /\ \E id \in DOMAIN persistent, s \in Addresses :
        /\ s # persistent[id].owner
        /\ Cardinality(DOMAIN persistent[id].approvals) >= 2
        /\ s \in DOMAIN persistent[id].approvals
        /\ transfer(s, "a3", id, {s}).result = "Ok"

\* C3: with an approval of a spender (not the owner) that expires at
\* height H, the spender's transfer fails with NotAuthorized at every
\* height >= H and succeeds at every height < H.
C3_ApprovalExpiresAtHeight ==
    \A id \in DOMAIN persistent, s \in Addresses, to \in Addresses,
       auth \in AllAuths :
        (/\ s # persistent[id].owner
         /\ s \in DOMAIN persistent[id].approvals
         /\ persistent[id].approvals[s].kind = "AtHeight"
         /\ s \in auth)
        => LET H == persistent[id].approvals[s].at
               r == transfer(s, to, id, auth)
           IN /\ ledger.sequence >= H => r.result = "NotAuthorized"
              /\ ledger.sequence < H => r.result = "Ok"

\* C3 happens: the approval was given for height H, the ledger has since
\* reached H and the spender's transfer is refused.
C3_Witness ==
    \E id \in DOMAIN persistent, s \in Addresses, H \in 1..MaxHeight :
        /\ s # persistent[id].owner
        /\ s \in DOMAIN persistent[id].approvals
        /\ persistent[id].approvals[s] = AtHeight(H)
        /\ ledger.sequence >= H
        /\ transfer(s, "a1", id, {s}).result = "NotAuthorized"

\* the collection record, which exists once an item does
Minter == get(instance, "CollectionInfo").minter

\* mint wrote exactly the item: owner, no approvals, the token_uri given
MintCreates ==
    \A owner \in Addresses, id \in TokenIds, uri \in Uris, auth \in AllAuths :
        LET r == mint(owner, id, uri, auth)
        IN r.result = "Ok" =>
            /\ get_token_info(r.persistent, id).result = "Ok"
            /\ r.persistent[id].owner = owner
            /\ r.persistent[id].token_uri = uri
            /\ DOMAIN r.persistent[id].approvals = {}

\* C4 as stated: when mint succeeds the item exists with the owner, the
\* token_uri and no approvals; while the item exists every further mint of
\* its id fails with AlreadyMinted and leaves the item, tokens_count and
\* max_token_id unchanged.
C4_EveryFurtherMintAlreadyMinted ==
    /\ MintCreates
    /\ \A id \in DOMAIN persistent, owner \in Addresses, uri \in Uris,
          auth \in AllAuths :
        LET r == mint(owner, id, uri, auth)
        IN r.result = "AlreadyMinted" /\ Untouched(r)

\* C4 as amended: when mint succeeds the item exists with the owner, the
\* token_uri and no approvals; while the item exists every further mint of
\* its id fails, with AlreadyMinted when the current minter's proof comes
\* with it and with the failure of require_auth when it does not, and
\* leaves the item, tokens_count and max_token_id unchanged.
C4_FurtherMintFails ==
    /\ MintCreates
    /\ \A id \in DOMAIN persistent, owner \in Addresses, uri \in Uris,
          auth \in AllAuths :
        LET r == mint(owner, id, uri, auth)
        IN /\ r.result = IF Minter \in auth THEN "AlreadyMinted" ELSE "AuthFailed"
           /\ r.persistent[id] = persistent[id]
           /\ get_tokens_count(r.instance) = get_tokens_count(instance)
           /\ get_max_token_id(r.instance) = get_max_token_id(instance)
           /\ Untouched(r)

\* C4 happens: item 0 has been minted, to a1 with token_uri u1 and no
\* approvals, and has since changed hands; a further mint of it by the
\* minter is refused, and so is a mint of it by another identity.
C4_Witness ==
    /\ 0 \in DOMAIN persistent
    /\ 1 \notin DOMAIN persistent
    /\ mint("a1", 1, "u1", {Minter}).persistent[1] = TokenInfo("a1", MapNew, "u1")
    /\ persistent[0].owner = "a3"
    /\ mint("a2", 0, "u2", {Minter}).result = "AlreadyMinted"
    /\ mint("a2", 0, "u2", {"a3"}).result = "AuthFailed"

\* the number of items other than id is the same in both tiers, and each
\* is the same item
OthersKept(p, q, id) ==
    /\ DOMAIN q \ {id} = DOMAIN p \ {id}
    /\ \A other \in DOMAIN p \ {id} : q[other] = p[other]

\* C5: after a successful burn of item id, get_token_info(id) fails with
\* NotNFT, tokens_count is one less than before, max_token_id is what it
\* was (also when id is the maximum id) and every other item is unchanged.
C5_BurnEffect ==
    \A id \in DOMAIN persistent, owner \in Addresses, auth \in AllAuths :
        LET r == burn(owner, id, auth)
        IN r.result = "Ok" =>
            /\ get_token_info(r.persistent, id).result = "NotNFT"
            /\ get_tokens_count(r.instance) = get_tokens_count(instance) - 1
            /\ get_max_token_id(r.instance) = get_max_token_id(instance)
            /\ OthersKept(persistent, r.persistent, id)

\* C5 happens: the item with the maximum id has been burned while another
\* item is kept, and that other item can be burned by its owner.
C5_Witness ==
    /\ get_max_token_id(instance) > 0
    /\ get_token_info(persistent, get_max_token_id(instance)).result = "NotNFT"
    /\ get_tokens_count(instance) = 1
    /\ \E id \in DOMAIN persistent :
        burn(persistent[id].owner, id, {persistent[id].owner}).result = "Ok"

\* some id of the batch is already minted
Collides(tokens) == \E k \in DOMAIN tokens : tokens[k][1] \in DOMAIN persistent

\* the proofs that matter to a check of identity a: nobody's, a's alone,
\* everybody's but a's, everybody's
AuthsAbout(a) == {{}, {a}, Addresses \ {a}, Addresses}

\* C6 as stated: a bulk_mint whose batch holds an id that already exists
\* fails with AlreadyMinted and commits no id of the batch; tokens_count
\* and max_token_id keep their values.
C6_CollisionAlreadyMinted ==
    \A owner \in Addresses, tokens \in Batches(TokenIds, {"u1"}) :
        Collides(tokens) =>
            \A auth \in AuthsAbout(Minter) :
                LET r == bulk_mint(owner, tokens, auth)
                IN r.result = "AlreadyMinted" /\ Untouched(r)

\* C6 as amended: a bulk_mint whose batch holds an id that already exists
\* fails, with AlreadyMinted when the current minter's proof comes with it
\* and with the failure of require_auth when it does not, and commits no
\* id of the batch, those before the colliding one included; tokens_count
\* and max_token_id keep their values.
C6_BulkMintAllOrNothing ==
    \A owner \in Addresses, tokens \in Batches(TokenIds, {"u1"}) :
        Collides(tokens) =>
            \A auth \in AuthsAbout(Minter) :
                LET r == bulk_mint(owner, tokens, auth)
                IN /\ r.result = IF Minter \in auth THEN "AlreadyMinted"
                                 ELSE "AuthFailed"
                   /\ r.persistent = persistent
                   /\ get_tokens_count(r.instance) = get_tokens_count(instance)
                   /\ get_max_token_id(r.instance) = get_max_token_id(instance)
                   /\ Untouched(r)

\* C6 happens: item 1 exists and item 0 does not; the minter's batch of a
\* new id followed by the existing one is refused.
C6_Witness ==
    /\ DOMAIN persistent = {1}
    /\ bulk_mint("a1", <<<<0, "u1">>, <<1, "u1">>>>, {Minter}).result = "AlreadyMinted"
    /\ bulk_mint("a1", <<<<0, "u1">>>>, {Minter}).result = "Ok"

\* the stored collection record
Stored == get(instance, "CollectionInfo")

Initialized == has(instance, "CollectionInfo")

\* every update_collection_info, update_token_url and upgrade is refused
\* with Frozen, whoever authorises it, and changes nothing
FrozenRefuses ==
    /\ \A ci \in CollectionInfos, auth \in AllAuths :
        LET r == update_collection_info(ci, auth)
        IN r.result = "Frozen" /\ Untouched(r)
    /\ \A id \in TokenIds, uri \in Uris, auth \in AllAuths :
        LET r == update_token_url(id, uri, auth)
        IN r.result = "Frozen" /\ Untouched(r)
    /\ \A hash \in Hashes, auth \in AllAuths :
        LET r == upgrade(hash, auth)
        IN r.result = "Frozen" /\ Untouched(r)

\* a successful freeze_collection leaves the collection frozen
FreezeFreezes ==
    \A auth \in AllAuths :
        LET r == freeze_collection(auth)
        IN r.result = "Ok" => is_collection_frozen(r.instance)

\* C7: freeze is one-way.  A successful freeze_collection leaves the
\* collection frozen; a frozen collection stays frozen in every later
\* state; and while it is frozen every update_collection_info,
\* update_token_url and upgrade fails with Frozen, whoever authorises it
\* and whatever its arguments, leaving the record and the items unchanged.
C7_FreezeIsOneWay ==
    /\ [](FreezeFreezes /\ (is_collection_frozen(instance) => FrozenRefuses))
    /\ [][is_collection_frozen(instance) => is_collection_frozen(instance')]_vars

\* C7 happens: the collection has been frozen with an item in it, and the
\* admin's update of the record, of the item's token_uri and of the code
\* are refused.
C7_Witness ==
    /\ is_collection_frozen(instance)
    /\ 0 \in DOMAIN persistent
    /\ \E ci \in CollectionInfos :
        /\ ci.creator = Stored.creator /\ ci.admin # Stored.admin
        /\ ValidCollectionInfo(ci)
        /\ update_collection_info(ci, {Stored.admin}).result = "Frozen"
    /\ update_token_url(0, "u2", {Stored.admin}).result = "Frozen"
    /\ upgrade("h1", {Stored.admin}).result = "Frozen"

\* C8 as stated: every update_collection_info whose record has another
\* creator than the stored one fails with InvalidCollectionInfo, in every
\* state of the collection and whatever the authorisation.
C8_OtherCreatorInvalidCollectionInfo ==
    Initialized =>
        \A ci \in CollectionInfos, auth \in AllAuths :
            ci.creator # Stored.creator =>
                update_collection_info(ci, auth).result = "InvalidCollectionInfo"

\* C8 as amended: every update_collection_info whose record has another
\* creator than the stored one fails and changes nothing, in every state
\* of the collection and whatever the authorisation: with Frozen on a
\* frozen collection, else with the failure of require_auth when the
\* admin's proof does not come with it, else with MinterFrozen when it
\* also changes a frozen minter, and with InvalidCollectionInfo in every
\* other case.
C8_OtherCreatorRefused ==
    Initialized =>
        \A ci \in CollectionInfos, auth \in AllAuths :
            ci.creator # Stored.creator =>
                LET r == update_collection_info(ci, auth)
                IN /\ Untouched(r)
                   /\ r.result =
                        IF is_collection_frozen(instance) THEN "Frozen"
                        ELSE IF Stored.admin \notin auth THEN "AuthFailed"
                        ELSE IF /\ ci.minter # Stored.minter
                                /\ has(instance, "MinterFrozen")
                        THEN "MinterFrozen"
                        ELSE "InvalidCollectionInfo"

\* C8 happens: on a collection that is not frozen and whose minter is
\* frozen, the admin's update to another creator is refused with
\* InvalidCollectionInfo when it keeps the minter and with MinterFrozen
\* when it changes it; another identity's is refused by require_auth.
C8_Witness ==
    /\ Initialized
    /\ ~is_collection_frozen(instance)
    /\ has(instance, "MinterFrozen")
    /\ \E ci \in CollectionInfos, cj \in CollectionInfos :
        /\ ci.creator # Stored.creator /\ ci.minter = Stored.minter
        /\ update_collection_info(ci, {Stored.admin}).result = "InvalidCollectionInfo"
        /\ update_collection_info(ci, Addresses \ {Stored.admin}).result = "AuthFailed"
        /\ cj.creator # Stored.creator /\ cj.minter # Stored.minter
        /\ update_collection_info(cj, {Stored.admin}).result = "MinterFrozen"

\* a successful initialize stores the creator it is given
InitializeStoresCreator ==
    \A ci \in CollectionInfos, fm \in BOOLEAN, auth \in AllAuths :
        LET r == initialize(ci, fm, auth)
        IN r.result = "Ok" => get(r.instance, "CollectionInfo").creator = ci.creator

\* C9: the creator never changes.  A successful initialize stores the
\* creator it is given, and from then on every step keeps the record and
\* its creator.
C9_CreatorNeverChanges ==
    /\ []InitializeStoresCreator
    /\ [][Initialized =>
            /\ has(instance', "CollectionInfo")
            /\ get(instance', "CollectionInfo").creator = Stored.creator]_vars

\* C9 happens: on an initialized collection the admin's update to another
\* creator is refused, and the admin's update that keeps the creator and
\* changes the rest of the record is accepted.
C9_Witness ==
    /\ Initialized
    /\ \E ci \in CollectionInfos, cj \in CollectionInfos :
        /\ ci.creator # Stored.creator
        /\ update_collection_info(ci, {Stored.admin}).result = "InvalidCollectionInfo"
        /\ cj.creator = Stored.creator /\ cj # Stored
        /\ update_collection_info(cj, {Stored.admin}).result = "Ok"

MinterIsFrozen == has(instance, "MinterFrozen")

\* initialize sets the minter-frozen flag exactly when freeze_minter is true
InitializeSetsFlag ==
    \A ci \in CollectionInfos, fm \in BOOLEAN, auth \in AllAuths :
        LET r == initialize(ci, fm, auth)
        IN r.result = "Ok" => (has(r.instance, "MinterFrozen") <=> fm)

\* on a collection that is not frozen, with the flag set, the admin's
\* update to another minter fails with MinterFrozen and changes nothing
FrozenMinterRefuses ==
    (Initialized /\ MinterIsFrozen /\ ~is_collection_frozen(instance)) =>
        \A ci \in CollectionInfos, auth \in AllAuths :
            (ci.minter # Stored.minter /\ Stored.admin \in auth) =>
                LET r == update_collection_info(ci, auth)
                IN r.result = "MinterFrozen" /\ Untouched(r)

\* the flag is set by initialize or never, is never cleared, and the
\* minter is the same from state to state while it is set
FlagSteps ==
    /\ MinterIsFrozen =>
        /\ has(instance', "MinterFrozen")
        /\ get(instance', "CollectionInfo").minter = Stored.minter
    /\ (Initialized /\ ~MinterIsFrozen) => ~has(instance', "MinterFrozen")

\* C10 as stated: with freeze_minter = true the minter is the same in
\* every later state, the admin's update to another minter fails with
\* MinterFrozen on a collection that is not frozen, and the flag is never
\* cleared; with freeze_minter = false the flag is never set and such an
\* update succeeds.
C10_UnfrozenMinterUpdateSucceeds ==
    /\ [](InitializeSetsFlag /\ FrozenMinterRefuses)
    /\ [][FlagSteps]_vars
    /\ []((Initialized /\ ~MinterIsFrozen /\ ~is_collection_frozen(instance)) =>
            \A ci \in CollectionInfos, auth \in AllAuths :
                (ci.minter # Stored.minter /\ Stored.admin \in auth) =>
                    update_collection_info(ci, auth).result = "Ok")

\* C10 as amended: as stated, except that with freeze_minter = false such
\* an update succeeds, and stores the new minter, when it keeps the creator
\* and its fields are within their limits; otherwise it fails with
\* InvalidCollectionInfo, never with MinterFrozen.
C10_MinterFrozenForGood ==
    /\ [](InitializeSetsFlag /\ FrozenMinterRefuses)
    /\ [][FlagSteps]_vars
    /\ []((Initialized /\ ~MinterIsFrozen /\ ~is_collection_frozen(instance)) =>
            \A ci \in CollectionInfos, auth \in AllAuths :
                (ci.minter # Stored.minter /\ Stored.admin \in auth) =>
                    LET r == update_collection_info(ci, auth)
                    IN IF ci.creator = Stored.creator /\ ValidCollectionInfo(ci)
                       THEN /\ r.result = "Ok"
                            /\ get(r.instance, "CollectionInfo").minter = ci.minter
                       ELSE r.result = "InvalidCollectionInfo" /\ Untouched(r))

\* C10 happens: the collection was initialized with freeze_minter = true
\* and is not frozen; the admin's update to another minter is refused with
\* MinterFrozen, the admin's update that keeps the minter is accepted.
C10_Witness ==
    /\ Initialized /\ MinterIsFrozen /\ ~is_collection_frozen(instance)
    /\ \E ci \in CollectionInfos, cj \in CollectionInfos :
        /\ ci.minter # Stored.minter /\ ci.creator = Stored.creator
        /\ ValidCollectionInfo(ci)
        /\ update_collection_info(ci, {Stored.admin}).result = "MinterFrozen"
        /\ cj.minter = Stored.minter /\ cj # Stored
        /\ update_collection_info(cj, {Stored.admin}).result = "Ok"

\* the error the specification calls AlreadyInitialized is Error::Initialized
\* in the code
AlreadyInitialized == "Initialized"

\* C11: initialize succeeds at most once.  Once the collection is
\* initialized, every initialize, with any arguments and any authorisation,
\* fails with AlreadyInitialized and leaves the collection record, the
\* minter-frozen flag, all items and both counters unchanged.
C11_InitializeOnce ==
    Initialized =>
        \A ci \in CollectionInfos, fm \in BOOLEAN, auth \in AllAuths :
            LET r == initialize(ci, fm, auth)
            IN /\ r.result = AlreadyInitialized
               /\ get_collection_info(r.instance) = get_collection_info(instance)
               /\ has(r.instance, "MinterFrozen") = MinterIsFrozen
               /\ r.persistent = persistent
               /\ get_tokens_count(r.instance) = get_tokens_count(instance)
               /\ get_max_token_id(r.instance) = get_max_token_id(instance)
               /\ Untouched(r)

\* C11 happens: the collection is initialized with the minter not frozen
\* and holds an item; an initialize with another valid record and
\* freeze_minter set, authorised by that record's creator, is refused.
C11_Witness ==
    /\ Initialized /\ ~MinterIsFrozen
    /\ 0 \in DOMAIN persistent
    /\ \E ci \in CollectionInfos :
        /\ ci # Stored /\ ci.creator # Stored.creator
        /\ ValidCollectionInfo(ci)
        /\ initialize(ci, TRUE, {ci.creator}).result = AlreadyInitialized

\* no id comes twice in the batch
Distinct(tokens) ==
    \A j \in DOMAIN tokens, k \in DOMAIN tokens :
        tokens[j][1] = tokens[k][1] => j = k

\* mint and bulk_mint succeed only with the proof of the stored minter;
\* without it they fail in require_auth and write nothing
MintNeedsMinter ==
    /\ \A owner \in Addresses, id \in TokenIds, auth \in AllAuths :
        LET r == mint(owner, id, "u1", auth)
        IN IF ~Initialized THEN r.result = "NotInitialized" /\ Untouched(r)
           ELSE IF Stored.minter \notin auth
           THEN r.result = "AuthFailed" /\ Untouched(r)
           ELSE id \notin DOMAIN persistent => r.result = "Ok"
    /\ \A owner \in Addresses, tokens \in Batches(TokenIds, {"u1"}),
          auth \in AllAuths :
        LET r == bulk_mint(owner, tokens, auth)
        IN IF ~Initialized THEN r.result = "NotInitialized" /\ Untouched(r)
           ELSE IF Stored.minter \notin auth
           THEN r.result = "AuthFailed" /\ Untouched(r)
           ELSE ~Collides(tokens) /\ Distinct(tokens) => r.result = "Ok"

\* in the state a step leads to, a mint authorised by m1 alone fails and
\* writes no item and no counter, and a mint of an unused id authorised by
\* m2 succeeds
MinterReplaced(m1, m2) ==
    \A id \in TokenIds :
        LET old == mint("a1", id, "u1", {m1})
            new == mint("a1", id, "u1", {m2})
        IN /\ old.result = "AuthFailed"
           /\ old.persistent = persistent
           /\ get_tokens_count(old.instance) = get_tokens_count(instance)
           /\ get_max_token_id(old.instance) = get_max_token_id(instance)
           /\ id \notin DOMAIN persistent =>
                /\ new.result = "Ok"
                /\ new.persistent[id].owner = "a1"

\* C12: mint and bulk_mint succeed only with proof of control of the
\* minter stored in the collection record at the time of the call.  After
\* a step that replaces minter m1 by m2, a mint authorised only by m1
\* fails and writes no item and no counter, and a mint of an unused id
\* authorised by m2 succeeds.
C12_CurrentMinterMints ==
    /\ []MintNeedsMinter
    /\ [][\A m1 \in Addresses, m2 \in Addresses :
            (Initialized /\ Stored.minter = m1 /\ m1 # m2
                /\ get(instance', "CollectionInfo").minter = m2)
            => MinterReplaced(m1, m2)']_vars

\* C12 happens: the collection holds no item, and the admin's update that
\* replaces the minter is accepted; the minter's mint would succeed now and
\* the mint of the minter to be is refused.
C12_Witness ==
    /\ Initialized /\ DOMAIN persistent = {}
    /\ \E ci \in CollectionInfos :
        /\ ci.minter # Stored.minter
        /\ Stored.admin # Stored.minter
        /\ update_collection_info(ci, {Stored.admin}).result = "Ok"
        /\ mint("a1", 0, "u1", {Stored.minter}).result = "Ok"
        /\ mint("a1", 0, "u1", {ci.minter}).result = "AuthFailed"

\* u32 arguments of get_tokens: the small ones, and the two largest
U32s == {u32(n) : n \in 0..(MaxId + 1)} \cup {U32_MAX, [hi |-> Half - 1, lo |-> Half - 2]}

\* the owner filters of get_tokens
Filters == {None} \cup {Some(a) : a \in Addresses}

\* id n lies in [start_after, start_after + limit], the sum taken in the
\* integers
InInterval(n, start_after, limit) ==
    LET lo == start_after.lo + limit.lo
        hi == start_after.hi + limit.hi + (lo \div Half)
    IN /\ start_after.hi = 0 /\ start_after.lo <= n
       /\ hi > 0 \/ n <= lo

\* the items with the ids of S, in ascending id order
RECURSIVE Ascending(_)
Ascending(S) ==
    IF S = {} THEN <<>>
    ELSE LET least == CHOOSE n \in S : \A m \in S : n <= m
         IN <<persistent[least]>> \o Ascending(S \ {least})

\* the existing items with id in [start_after, min(start_after + limit,
\* max_token_id)] whose owner is the filter's when one is given
Listed(owner, start_after, limit) ==
    Ascending({n \in DOMAIN persistent :
                 /\ InInterval(n, start_after, limit)
                 /\ n <= get_max_token_id(instance)
                 /\ is_some(owner) => persistent[n].owner = unwrap(owner)})

\* C13 as stated: for every start_after and limit in the u32 range,
\* get_tokens returns exactly the existing items with id in
\* [start_after, min(start_after + limit, max_token_id)], in ascending id
\* order, of the owner of the filter when one is given, whichever way the
\* contract was built.
C13_GetTokensInterval ==
    \A owner \in Filters, start_after \in U32s, limit \in U32s,
       overflow_checks \in BOOLEAN :
        LET r == get_tokens(instance, persistent, owner, start_after, limit,
                            overflow_checks)
        IN r.result = "Ok" /\ r.value = Listed(owner, start_after, limit)

\* C13 happens: item 1 exists; get_tokens(None, 1, 2^32 - 1) should list
\* it, and panics in a build with overflow checks and returns nothing in a
\* build without them.
C13_Witness ==
    /\ 1 \in DOMAIN persistent
    /\ Listed(None, u32(1), U32_MAX) = <<persistent[1]>>
    /\ get_tokens(instance, persistent, None, u32(1), U32_MAX, TRUE).result = "Overflow"
    /\ get_tokens(instance, persistent, None, u32(1), U32_MAX, FALSE).value = <<>>
    /\ get_tokens(instance, persistent, None, u32(0), U32_MAX, TRUE).value
          = Listed(None, u32(0), U32_MAX)

\* the expiration heights offered to approve_all: behind, at and ahead of
\* every height of the ledger
Heights == 0..(MaxHeight + 1)

\* the operator-grant record of (owner, operator) and the window asked for it
Grant(expiration_ledger, window) ==
    [expiration_ledger |-> expiration_ledger, extend_to |-> window]

\* r left every operator grant but that of (owner, operator) as it was
OtherGrantsKept(r, owner, operator) ==
    /\ DOMAIN r.temporary \ {<<owner, operator>>}
          = DOMAIN temporary \ {<<owner, operator>>}
    /\ \A k \in DOMAIN temporary \ {<<owner, operator>>} :
          r.temporary[k] = temporary[k]

\* C14 as stated: approve_all fails whenever expiration_height <= current
\* height, equality included, and then there is no operator-grant record
\* for (owner, operator); when expiration_height > current height it
\* stores the grant with a window of exactly expiration_height minus
\* current height.
C14_FailsAtOrBelowHeight ==
    \A owner \in Addresses, operator \in Addresses, h \in Heights :
        LET r == approve_all(owner, operator, h, {owner})
        IN IF h <= ledger.sequence
           THEN r.result # "Ok" /\ <<owner, operator>> \notin DOMAIN r.temporary
           ELSE /\ r.result = "Ok"
                /\ r.temporary[<<owner, operator>>] = Grant(h, h - ledger.sequence)

\* C14 as amended: approve_all with the owner's proof fails whenever
\* expiration_height < current height, and then writes nothing: the grants
\* are those from before the call, an earlier grant of (owner, operator)
\* included.  When expiration_height >= current height, equality included,
\* it stores the grant, with a window asked of exactly expiration_height
\* minus current height (zero at equality), and changes nothing else.
\* Without the owner's proof it fails in require_auth and writes nothing.
C14_FailsBelowHeight ==
    \A owner \in Addresses, operator \in Addresses, h \in Heights,
       auth \in AllAuths :
        LET r == approve_all(owner, operator, h, auth)
        IN IF owner \notin auth THEN r.result = "AuthFailed" /\ Untouched(r)
           ELSE IF h < ledger.sequence THEN r.result = "Unwrap" /\ Untouched(r)
           ELSE /\ r.result = "Ok"
                /\ r.temporary[<<owner, operator>>] = Grant(h, h - ledger.sequence)
                /\ OtherGrantsKept(r, owner, operator)
                /\ r.instance = instance /\ r.persistent = persistent
                /\ r.wasm = wasm

\* C14 happens: the ledger has advanced, a1 has granted a2 operator rights
\* at the height of the ledger, with a window of zero, and a1's grant for
\* a height behind the ledger is refused and leaves that grant in place.
C14_Witness ==
    /\ ledger.sequence > 0
    /\ <<"a1", "a2">> \in DOMAIN temporary
    /\ temporary[<<"a1", "a2">>] = Grant(ledger.sequence, 0)
    /\ approve_all("a1", "a2", ledger.sequence - 1, {"a1"}).result = "Unwrap"
    /\ <<"a1", "a2">> \in
          DOMAIN approve_all("a1", "a2", ledger.sequence - 1, {"a1"}).temporary
    /\ approve_all("a1", "a2", ledger.sequence, {"a1"}).result = "Ok"

\* approve_all and revoke_all change no item, counter or collection record
GrantsWriteGrantsOnly ==
    /\ \A owner \in Addresses, operator \in Addresses, h \in Heights :
       \A auth \in AuthsAbout(owner) :
        LET r == approve_all(owner, operator, h, auth)
        IN r.instance = instance /\ r.persistent = persistent /\ r.wasm = wasm
    /\ \A owner \in Addresses, operator \in Addresses :
       \A auth \in AuthsAbout(owner) :
        LET r == revoke_all(owner, operator, auth)
        IN r.instance = instance /\ r.persistent = persistent /\ r.wasm = wasm

\* operator holds a grant from the item's owner and no approval for the item
GrantOnly(id, operator) ==
    /\ operator # persistent[id].owner
    /\ <<persistent[id].owner, operator>> \in DOMAIN temporary
    /\ operator \notin DOMAIN persistent[id].approvals

\* an operator with a grant from the owner and no approval for the item
\* cannot transfer, approve or burn it, in its own name or in the owner's
OperatorRefused ==
    \A id \in DOMAIN persistent, operator \in Addresses :
        GrantOnly(id, operator) =>
            LET owner == persistent[id].owner
            IN /\ \A to \in Addresses :
                    LET r == transfer(operator, to, id, {operator})
                        q == transfer(owner, to, id, {operator})
                    IN /\ r.result = "NotAuthorized" /\ Untouched(r)
                       /\ q.result = "AuthFailed" /\ Untouched(q)
               /\ \A spender \in Addresses, expires \in Expirations :
                    LET r == approve(operator, spender, id, expires, {operator})
                        q == approve(owner, spender, id, expires, {operator})
                    IN /\ r.result = "NotAuthorized" /\ Untouched(r)
                       /\ q.result = "AuthFailed" /\ Untouched(q)
               /\ LET r == burn(operator, id, {operator})
                      q == burn(owner, id, {operator})
                  IN /\ r.result = "NotAuthorized" /\ Untouched(r)
                     /\ q.result = "AuthFailed" /\ Untouched(q)

\* the result of a call and the items it leaves
Outcome(r) == <<r.result, r.persistent>>

\* the outcomes of every transfer, approve, revoke and burn call in the
\* current state
Outcomes ==
    [call \in {"transfer", "revoke"} \X Addresses \X Addresses \X TokenIds |->
        LET auths == AuthsAbout(call[2])
        IN IF call[1] = "transfer"
           THEN [auth \in auths |-> Outcome(transfer(call[2], call[3], call[4], auth))]
           ELSE [auth \in auths |-> Outcome(revoke(call[2], call[3], call[4], auth))]]

OutcomesOfApprove ==
    [call \in Addresses \X Addresses \X TokenIds \X Expirations |->
        [auth \in AuthsAbout(call[1]) |->
            Outcome(approve(call[1], call[2], call[3], call[4], auth))]]

OutcomesOfBurn ==
    [call \in Addresses \X TokenIds |->
        [auth \in AuthsAbout(call[1]) |-> Outcome(burn(call[1], call[2], auth))]]

\* the step changes the operator grants and nothing else
GrantsStep ==
    /\ temporary' # temporary
    /\ instance' = instance /\ persistent' = persistent /\ ledger' = ledger
    /\ wasm' = wasm

\* C15: operator grants confer no authority.  approve_all and revoke_all
\* change no item, counter or collection record; two states that differ
\* only in their operator grants give every transfer, approve, revoke and
\* burn call the same outcome and the same items; and an operator with a
\* grant from the owner but no approval for the item cannot transfer,
\* approve or burn the owner's item.
C15_GrantsConferNoAuthority ==
    /\ [](GrantsWriteGrantsOnly /\ OperatorRefused)
    /\ [][GrantsStep =>
            /\ Outcomes' = Outcomes
            /\ OutcomesOfApprove' = OutcomesOfApprove
            /\ OutcomesOfBurn' = OutcomesOfBurn]_vars

\* C15 happens: a1 owns item 0 and has granted a2 operator rights; a2 has
\* no approval for the item, and a2's transfer, approve and burn of it are
\* refused, while a3, who holds an approval, may transfer it.
C15_Witness ==
    /\ 0 \in DOMAIN persistent
    /\ persistent[0].owner = "a1"
    /\ GrantOnly(0, "a2")
    /\ "a3" \in DOMAIN persistent[0].approvals
    /\ transfer("a2", "a2", 0, {"a2"}).result = "NotAuthorized"
    /\ approve("a2", "a3", 0, None, {"a2"}).result = "NotAuthorized"
    /\ burn("a2", 0, {"a2"}).result = "NotAuthorized"
    /\ transfer("a3", "a2", 0, {"a3"}).result = "Ok"

\* r rewrote item id with the entry of spender set to e and nothing else
SetsEntry(r, id, spender, e) ==
    /\ r.result = "Ok"
    /\ DOMAIN r.persistent[id].approvals
          = DOMAIN persistent[id].approvals \cup {spender}
    /\ r.persistent[id].approvals[spender] = e
    /\ \A other \in DOMAIN persistent[id].approvals \ {spender} :
          r.persistent[id].approvals[other] = persistent[id].approvals[other]
    /\ r.persistent[id].owner = persistent[id].owner
    /\ r.persistent[id].token_uri = persistent[id].token_uri
    /\ OthersKept(persistent, r.persistent, id)
    /\ r.instance = instance

\* C16 as stated: approve with an `expires` already expired at call time
\* fails with NotAuthorized and leaves the item's approvals as before;
\* with a non-expired or absent `expires` a successful approve sets or
\* overwrites only that spender's entry.
C16_ExpiredNotAuthorized ==
    \A id \in DOMAIN persistent, owner \in Addresses, spender \in Addresses,
       expires \in Expirations :
       \A auth \in AuthsAbout(owner) :
        LET r == approve(owner, spender, id, expires, auth)
            e == unwrap_or_default(expires)
        IN IF ~NonExpired(e)
           THEN /\ r.result = "NotAuthorized"
                /\ r.persistent[id].approvals = persistent[id].approvals
           ELSE r.result = "Ok" => SetsEntry(r, id, spender, e)

\* C16 as amended: approve of an existing item with an `expires` already
\* expired at call time fails and leaves the item's approvals exactly as
\* before, an earlier entry of the same spender included: with the failure
\* of require_auth when the caller's proof does not come with it, with
\* NotAuthorized otherwise.  With a non-expired or absent `expires`
\* (absent meaning never), the caller's proof and the caller's authority
\* over the item, it sets or overwrites only that spender's entry and
\* leaves the owner, the token_uri and the other entries unchanged.
C16_ExpiredRefused ==
    \A id \in DOMAIN persistent, owner \in Addresses, spender \in Addresses,
       expires \in Expirations :
       \A auth \in AuthsAbout(owner) :
        LET r == approve(owner, spender, id, expires, auth)
            e == unwrap_or_default(expires)
        IN IF owner \notin auth THEN r.result = "AuthFailed" /\ Untouched(r)
           ELSE IF ~NonExpired(e) \/ ~MaySend(persistent[id], owner)
           THEN /\ r.result = "NotAuthorized"
                /\ r.persistent[id].approvals = persistent[id].approvals
                /\ Untouched(r)
           ELSE SetsEntry(r, id, spender, e)

\* C16 happens: the item's approval of a2 for height H is held and the
\* ledger has reached H; the owner's approve of a2 for H is refused, and
\* the owner's approve of a2 without `expires` would overwrite the entry
\* while a3 keeps its own.
C16_Witness ==
    \E id \in DOMAIN persistent, H \in 1..MaxHeight :
        LET owner == persistent[id].owner
        IN /\ owner \notin {"a2", "a3"}
           /\ DOMAIN persistent[id].approvals = {"a2", "a3"}
           /\ persistent[id].approvals["a2"] = AtHeight(H)
           /\ ledger.sequence >= H
           /\ approve(owner, "a2", id, Some(AtHeight(H)), {owner}).result
                 = "NotAuthorized"
           /\ approve(owner, "a2", id, None, {owner}).persistent[id].approvals["a2"]
                 = Never

\* caller holds, without owning the item, an approval that has not run out
ApprovedSpender(id, caller) ==
    /\ caller # persistent[id].owner
    /\ caller \in DOMAIN persistent[id].approvals
    /\ NonExpired(persistent[id].approvals[caller])

\* C17: approve, revoke and burn accept the same callers as transfer.  A
\* spender who is not the owner and holds a non-expired approval for the
\* item can approve another spender for it, revoke an approval on it and
\* burn it; a caller who is neither the owner nor such a spender fails in
\* all three and leaves the item unchanged.
C17_SameCallersAsTransfer ==
    \A id \in DOMAIN persistent, caller \in Addresses, other \in Addresses :
       \A auth \in AuthsAbout(caller) :
        LET t == transfer(caller, other, id, auth)
            a == approve(caller, other, id, None, auth)
            v == revoke(caller, other, id, auth)
            b == burn(caller, id, auth)
        IN /\ (a.result = "Ok") = (t.result = "Ok")
           /\ (v.result = "Ok") = (t.result = "Ok")
           /\ (b.result = "Ok") = (t.result = "Ok")
           /\ (ApprovedSpender(id, caller) /\ caller \in auth) =>
                /\ a.result = "Ok" /\ a.persistent[id].approvals[other] = Never
                /\ v.result = "Ok" /\ other \notin DOMAIN v.persistent[id].approvals
                /\ b.result = "Ok" /\ id \notin DOMAIN b.persistent
           /\ ~MaySend(persistent[id], caller) =>
                /\ a.result # "Ok" /\ Untouched(a)
                /\ v.result # "Ok" /\ Untouched(v)
                /\ b.result # "Ok" /\ Untouched(b)

\* C17 happens: a2 holds an approval of item 0 that has not run out and
\* a3 one that has; a2 can approve a3 anew, revoke a3's entry and burn the
\* item, and a3 is refused in all three.
C17_Witness ==
    /\ 0 \in DOMAIN persistent
    /\ ApprovedSpender(0, "a2")
    /\ "a3" \in DOMAIN persistent[0].approvals
    /\ ~MaySend(persistent[0], "a3")
    /\ approve("a2", "a3", 0, None, {"a2"}).result = "Ok"
    /\ revoke("a2", "a3", 0, {"a2"}).result = "Ok"
    /\ burn("a2", 0, {"a2"}).result = "Ok"
    /\ approve("a3", "a2", 0, None, {"a3"}).result = "NotAuthorized"
    /\ revoke("a3", "a2", 0, {"a3"}).result = "NotAuthorized"
    /\ burn("a3", 0, {"a3"}).result = "NotAuthorized"

\* the outcomes of the item operations and of the read accessors in the
\* current state: the result, the items left and the two counters left
ItemOutcome(r) ==
    <<r.result, r.persistent, get_tokens_count(r.instance),
      get_max_token_id(r.instance), get_collection_info(r.instance)>>

ItemOutcomes ==
    <<[c \in Addresses \X TokenIds \X AllAuths |->
          ItemOutcome(mint(c[1], c[2], "u1", c[3]))],
      [c \in Batches(TokenIds, {"u1"}) \X AllAuths |->
          ItemOutcome(bulk_mint("a1", c[1], c[2]))],
      [c \in Addresses \X Addresses \X TokenIds \X AllAuths |->
          <<ItemOutcome(transfer(c[1], c[2], c[3], c[4])),
            ItemOutcome(approve(c[1], c[2], c[3], None, c[4])),
            ItemOutcome(revoke(c[1], c[2], c[3], c[4])),
            ItemOutcome(burn(c[1], c[3], c[4]))>>],
      [id \in TokenIds |-> get_token_info(persistent, id)],
      [c \in Filters \X U32s \X U32s \X BOOLEAN |->
          get_tokens(instance, persistent, c[1], c[2], c[3], c[4])],
      get_collection_info(instance), get_tokens_count(instance),
      get_max_token_id(instance)>>

\* freeze_collection changes no item and no counter
FreezeKeepsItems ==
    \A auth \in AllAuths :
        LET r == freeze_collection(auth)
        IN /\ r.persistent = persistent
           /\ get_tokens_count(r.instance) = get_tokens_count(instance)
           /\ get_max_token_id(r.instance) = get_max_token_id(instance)

\* in a frozen collection the item operations are open to those they are
\* open to in any collection: the minter mints, the owner approves,
\* revokes, transfers and burns
FrozenStillServes ==
    is_collection_frozen(instance) =>
        /\ \A id \in TokenIds \ DOMAIN persistent :
            /\ mint("a1", id, "u1", {Stored.minter}).result = "Ok"
            /\ bulk_mint("a1", <<<<id, "u1">>>>, {Stored.minter}).result = "Ok"
        /\ \A id \in DOMAIN persistent :
            LET owner == persistent[id].owner
            IN /\ transfer(owner, "a3", id, {owner}).persistent[id].owner = "a3"
               /\ approve(owner, "a3", id, None, {owner}).result = "Ok"
               /\ revoke(owner, "a3", id, {owner}).result = "Ok"
               /\ burn(owner, id, {owner}).result = "Ok"
               /\ get_token_info(persistent, id).result = "Ok"

\* C18: freezing the collection does not disable item operations.
\* freeze_collection changes no item and no counter, and across the step
\* that freezes the collection every mint, bulk_mint, transfer, approve,
\* revoke and burn call and every read accessor has the same outcome and
\* the same effect on the items and counters as before it.
C18_FrozenKeepsItemOperations ==
    /\ [](FreezeKeepsItems /\ FrozenStillServes)
    /\ [][(~is_collection_frozen(instance) /\ is_collection_frozen(instance'))
            => ItemOutcomes' = ItemOutcomes]_vars

\* C18 happens: the collection is frozen and holds an item with an
\* approval; the owner's transfer and burn of it and the minter's mint of
\* another id succeed.
C18_Witness ==
    /\ is_collection_frozen(instance)
    /\ 0 \in DOMAIN persistent
    /\ DOMAIN persistent[0].approvals # {}
    /\ transfer(persistent[0].owner, "a3", 0, {persistent[0].owner}).result = "Ok"
    /\ burn(persistent[0].owner, 0, {persistent[0].owner}).result = "Ok"
    /\ mint("a1", 1, "u1", {Stored.minter}).result = "Ok"

\* C19: in every reachable state tokens_count equals the number of items
\* that exist; a successful bulk_mint of k ids raises it by exactly k (two
\* new ids on an empty collection give 2), and a successful burn lowers it
\* by one and never below zero.
C19_CountIsNumberOfItems ==
    /\ get_tokens_count(instance) = Cardinality(DOMAIN persistent)
    /\ \A tokens \in Batches(TokenIds, {"u1"}) :
        Initialized =>
            LET r == bulk_mint("a1", tokens, {Minter})
            IN r.result = "Ok" =>
                /\ get_tokens_count(r.instance)
                      = get_tokens_count(instance) + Len(tokens)
                /\ get_tokens_count(r.instance) = Cardinality(DOMAIN r.persistent)
    /\ \A id \in DOMAIN persistent, owner \in Addresses :
        LET r == burn(owner, id, {owner})
        IN /\ get_tokens_count(r.instance) >= 0
           /\ get_tokens_count(r.instance) = Cardinality(DOMAIN r.persistent)

\* C19 happens: an item has been burned and one is left, counted once; a
\* bulk_mint of the burned id alone raises the count to 2.
C19_Witness ==
    /\ get_max_token_id(instance) = MaxId
    /\ DOMAIN persistent = {0}
    /\ get_tokens_count(instance) = 1
    /\ LET r == bulk_mint("a1", <<<<MaxId, "u1">>>>, {Minter})
       IN r.result = "Ok" /\ get_tokens_count(r.instance) = 2

\* the largest of a non-empty set of numbers
Largest(S) == CHOOSE n \in S : \A m \in S : m <= n

\* C20: max_token_id is a high-water mark.  In every reachable state it is
\* at least the id of every existing item; a step never lowers it, and
\* leaves it the largest of its old value and the ids the step minted: it
\* is the largest id ever minted, 0 when none above 0 was, after mint,
\* bulk_mint and burn alike.
C20_MaxIsHighWaterMark ==
    /\ [](\A id \in DOMAIN persistent : id <= get_max_token_id(instance))
    /\ [][/\ get_max_token_id(instance') >= get_max_token_id(instance)
          /\ get_max_token_id(instance')
                = Largest({get_max_token_id(instance)}
                            \cup (DOMAIN persistent' \ DOMAIN persistent))]_vars

\* C20 happens: the item with the largest id has been burned, a smaller id
\* is held, and max_token_id is still the burned id; a mint of the smaller
\* id's neighbour below would not lower it.
C20_Witness ==
    /\ get_max_token_id(instance) = MaxId
    /\ MaxId \notin DOMAIN persistent
    /\ DOMAIN persistent # {}
    /\ \A id \in DOMAIN persistent : id < get_max_token_id(instance)
    /\ burn(persistent[0].owner, 0, {persistent[0].owner}).result = "Ok"
    /\ get_max_token_id(burn(persistent[0].owner, 0, {persistent[0].owner}).instance)
          = MaxId

====
